---------------------------- MODULE Spec2Model ----------------------------
(***************************************************************************)
(* Block-aware text selection of Okular (core/blockselection.cpp and the   *)
(* TextPage entry points that use it).                                     *)
(*                                                                         *)
(* Coordinates are the normalized page coordinates of the source scaled by *)
(* 1000 (0.45 is 450), so that every comparison of the source is an exact  *)
(* integer comparison.  A centre (left+right)/2 is kept doubled            *)
(* (left+right) and compared with doubled bounds.                          *)
(*                                                                         *)
(* A pointer to a LayoutBlock is the index of the block in the list, and   *)
(* nullptr is 0.                                                           *)
(***************************************************************************)
EXTENDS Integers, Sequences, FiniteSets

(***************************************************************************)
(* Data                                                                    *)
(***************************************************************************)
Rect(l, t, r, b) == [left |-> l, top |-> t, right |-> r, bottom |-> b]

Pt(px, py) == [x |-> px, y |-> py]

LayoutBlock(i, box, order) == [id |-> i, bbox |-> box, readingOrder |-> order]

TextEntity(s, box) == [text |-> s, area |-> box]

nullptr == 0

Range(s) == {s[i] : i \in 1..Len(s)}

Abs(n) == IF n < 0 THEN -n ELSE n

\* (left+right, top+bottom): twice the centre of a rectangle
Center2(r) == Pt(r.left + r.right, r.top + r.bottom)

(***************************************************************************)
(* Layout Registry: containment                                            *)
(***************************************************************************)
\* mutant: the edges are not part of the rectangle
RectContainsStrict(r, px, py) ==
    /\ px > r.left /\ px < r.right
    /\ py > r.top  /\ py < r.bottom

\* NormalizedRect::contains(x, y), edges inclusive
RectContains(r, px, py) ==
    /\ px >= r.left /\ px <= r.right
    /\ py >= r.top  /\ py <= r.bottom

\* NormalizedRect::contains on a doubled point (a centre)
RectContains2(r, c2) ==
    /\ c2.x >= 2 * r.left /\ c2.x <= 2 * r.right
    /\ c2.y >= 2 * r.top  /\ c2.y <= 2 * r.bottom

\* NormalizedRect::intersects, shared edges included
RectIntersects(a, b) ==
    /\ b.left <= a.right /\ b.right >= a.left
    /\ b.top <= a.bottom /\ b.bottom >= a.top

\* LayoutBlock::contains(const NormalizedPoint &)
BlockContainsPoint(block, p) == RectContains(block.bbox, p.x, p.y)

\* mutant: the whole rectangle has to be in the block
BlockContainsRectWhole(block, r) ==
    /\ RectContains(block.bbox, r.left, r.top)
    /\ RectContains(block.bbox, r.right, r.bottom)

\* LayoutBlock::contains(const NormalizedRect &): the centre decides
BlockContainsRect(block, r) == RectContains2(block.bbox, Center2(r))

(***************************************************************************)
(* Block Locator                                                           *)
(***************************************************************************)
RECURSIVE FirstContaining(_, _, _)
FirstContaining(blocks, p, i) ==
    IF i > Len(blocks) THEN nullptr
    ELSE IF BlockContainsPoint(blocks[i], p) THEN i
    ELSE FirstContaining(blocks, p, i + 1)

\* mutant: the last containing block instead of the first
findBlockContainingLast(blocks, p) ==
    LET hits == {i \in 1..Len(blocks) : BlockContainsPoint(blocks[i], p)}
    IN  IF hits = {} THEN nullptr ELSE CHOOSE i \in hits : \A j \in hits : j <= i

findBlockContaining(blocks, p) == FirstContaining(blocks, p, 1)

RECURSIVE FirstWithOrder(_, _, _)
FirstWithOrder(blocks, order, i) ==
    IF i > Len(blocks) THEN nullptr
    ELSE IF blocks[i].readingOrder = order THEN i
    ELSE FirstWithOrder(blocks, order, i + 1)

\* mutant: the first block of the list with any higher order
getNextBlockHigher(blocks, current) ==
    LET later == {i \in 1..Len(blocks) :
                     blocks[i].readingOrder > blocks[current].readingOrder}
    IN  IF current = nullptr \/ later = {} THEN nullptr
        ELSE CHOOSE i \in later : \A j \in later : i <= j

getNextBlock(blocks, current) ==
    IF current = nullptr THEN nullptr
    ELSE FirstWithOrder(blocks, blocks[current].readingOrder + 1, 1)

\* TextPagePrivate::getPreviousBlock: the blocks a call may return.  It is the
\* block whose readingOrder is one less, none if absent or if current is
\* null; which one of several blocks with that order is returned is left open
getPreviousBlock(blocks, current) ==
    LET earlier == {i \in 1..Len(blocks) :
                       blocks[i].readingOrder = blocks[current].readingOrder - 1}
    IN  IF current = nullptr \/ earlier = {} THEN {nullptr} ELSE earlier

\* the "passed" test of findBlockForCursor
Passed(block, p) ==
    \/ p.y > block.bbox.bottom
    \/ /\ p.y >= block.bbox.top
       /\ p.y <= block.bbox.bottom
       /\ p.x > block.bbox.right

\* mutant: a passed block of the same order replaces the one kept
RECURSIVE BestPassedLast(_, _, _, _, _)
BestPassedLast(blocks, p, i, bestBlock, bestOrder) ==
    IF i > Len(blocks) THEN bestBlock
    ELSE IF Passed(blocks[i], p) /\ blocks[i].readingOrder >= bestOrder
         THEN BestPassedLast(blocks, p, i + 1, i, blocks[i].readingOrder)
         ELSE BestPassedLast(blocks, p, i + 1, bestBlock, bestOrder)

\* the loop over the blocks keeping the passed block of greatest order
RECURSIVE BestPassed(_, _, _, _, _)
BestPassed(blocks, p, i, bestBlock, bestOrder) ==
    IF i > Len(blocks) THEN bestBlock
    ELSE IF Passed(blocks[i], p) /\ blocks[i].readingOrder > bestOrder
         THEN BestPassed(blocks, p, i + 1, i, blocks[i].readingOrder)
         ELSE BestPassed(blocks, p, i + 1, bestBlock, bestOrder)

INT_MAX == 2147483647

\* mutant: a block of the same order replaces the one kept
RECURSIVE FirstInFlowLast(_, _, _, _)
FirstInFlowLast(blocks, i, firstBlock, minOrder) ==
    IF i > Len(blocks) THEN firstBlock
    ELSE IF blocks[i].readingOrder >= 0 /\ blocks[i].readingOrder <= minOrder
         THEN FirstInFlowLast(blocks, i + 1, i, blocks[i].readingOrder)
         ELSE FirstInFlowLast(blocks, i + 1, firstBlock, minOrder)

\* mutant: a block of order 0 is taken to be out of the flow
RECURSIVE FirstInFlowPositive(_, _, _, _)
FirstInFlowPositive(blocks, i, firstBlock, minOrder) ==
    IF i > Len(blocks) THEN firstBlock
    ELSE IF blocks[i].readingOrder > 0 /\ blocks[i].readingOrder < minOrder
         THEN FirstInFlowPositive(blocks, i + 1, i, blocks[i].readingOrder)
         ELSE FirstInFlowPositive(blocks, i + 1, firstBlock, minOrder)

\* the loop over the blocks keeping the block of lowest non-negative order
RECURSIVE FirstInFlow(_, _, _, _)
FirstInFlow(blocks, i, firstBlock, minOrder) ==
    IF i > Len(blocks) THEN firstBlock
    ELSE IF blocks[i].readingOrder >= 0 /\ blocks[i].readingOrder < minOrder
         THEN FirstInFlow(blocks, i + 1, i, blocks[i].readingOrder)
         ELSE FirstInFlow(blocks, i + 1, firstBlock, minOrder)

\* mutant: a block out of the flow is never the block of a cursor
findBlockForCursorInFlowOnly(blocks, p) ==
    LET directBlock == findBlockContaining(blocks, p)
        bestBlock   == BestPassed(blocks, p, 1, nullptr, -1)
        nextBlock   == getNextBlock(blocks, bestBlock)
    IN  IF directBlock # nullptr /\ blocks[directBlock].readingOrder >= 0
        THEN directBlock
        ELSE IF bestBlock # nullptr
             THEN (IF nextBlock # nullptr THEN nextBlock ELSE bestBlock)
        ELSE IF blocks # <<>> THEN FirstInFlow(blocks, 1, nullptr, INT_MAX)
        ELSE nullptr

findBlockForCursor(blocks, p) ==
    LET directBlock == findBlockContaining(blocks, p)
        bestBlock   == BestPassed(blocks, p, 1, nullptr, -1)
        nextBlock   == getNextBlock(blocks, bestBlock)
    IN  IF directBlock # nullptr THEN directBlock
        ELSE IF bestBlock # nullptr
             THEN (IF nextBlock # nullptr THEN nextBlock ELSE bestBlock)
        ELSE IF blocks # <<>> THEN FirstInFlow(blocks, 1, nullptr, INT_MAX)
        ELSE nullptr

\* mutant: the lower bound of the range is not applied
getBlocksInReadingOrderRangeNoMin(blocks, minOrder, maxOrder) ==
    SelectSeq([i \in 1..Len(blocks) |-> i],
              LAMBDA i : blocks[i].readingOrder <= maxOrder)

\* the list of pointers to the blocks whose order is in [minOrder, maxOrder]
getBlocksInReadingOrderRange(blocks, minOrder, maxOrder) ==
    SelectSeq([i \in 1..Len(blocks) |-> i],
              LAMBDA i : /\ blocks[i].readingOrder >= minOrder
                         /\ blocks[i].readingOrder <= maxOrder)

\* mutant: only the first block of the list is tested
isEntityInAnyBlockFirstOnly(entityArea, ptrs, blocks) ==
    \/ ptrs = <<>>
    \/ /\ ptrs[1] # nullptr
       /\ RectContains2(blocks[ptrs[1]].bbox, Center2(entityArea))

\* mutant: no entity is filtered out
isEntityInAnyBlockAlways(entityArea, ptrs, blocks) == TRUE

\* ptrs is the list of block pointers, blocks the list they point into
isEntityInAnyBlock(entityArea, ptrs, blocks) ==
    \/ ptrs = <<>>
    \/ \E k \in 1..Len(ptrs) :
          /\ ptrs[k] # nullptr
          /\ RectContains2(blocks[ptrs[k]].bbox, Center2(entityArea))

(***************************************************************************)
(* Reading-Order Text Assembler (extractTextInReadingOrder)                *)
(***************************************************************************)
\* 0.01 of the page, the same-line tolerance
SameLineTolerance == 10

\* mutant: a line reaches three times as far
SameLine2Loose(aY2, bY2) == Abs(aY2 - bY2) <= 6 * SameLineTolerance

\* two doubled centre heights are on one line: not qAbs(aY - bY) > 0.01
SameLine2(aY2, bY2) == Abs(aY2 - bY2) <= 2 * SameLineTolerance

\* the order an entity outside every block is filed under
NoBlockOrder == 999999

\* RegularAreaRect::intersects / RegularAreaRect::contains over the rectangles
AreaIntersects(area, r) == \E k \in 1..Len(area) : RectIntersects(area[k], r)

AreaContains2(area, c2) == \E k \in 1..Len(area) : RectContains2(area[k], c2)

\* the inclusion test of one entity against the selection area
EntityMatches(entity, area, useIntersects) ==
    IF useIntersects THEN AreaIntersects(area, entity.area)
    ELSE AreaContains2(area, Center2(entity.area))

\* the inner loop: the order of the first block holding the entity's centre
RECURSIVE BlockOrderOf(_, _, _)
BlockOrderOf(entityArea, blocks, i) ==
    IF i > Len(blocks) THEN -1
    ELSE IF BlockContainsRect(blocks[i], entityArea) THEN blocks[i].readingOrder
    ELSE BlockOrderOf(entityArea, blocks, i + 1)

\* mutant: the order of the owning block is the key, negative or not
GroupKeyAsIs(entityArea, blocks) == BlockOrderOf(entityArea, blocks, 1)

\* the key of entitiesByBlock the entity is appended under
GroupKey(entityArea, blocks) ==
    LET blockOrder == BlockOrderOf(entityArea, blocks, 1)
    IN  IF blockOrder >= 0 THEN blockOrder ELSE NoBlockOrder

\* the comparison handed to std::sort (Y, then X)
EntityLess(a, b) ==
    LET aY2 == a.area.top + a.area.bottom
        bY2 == b.area.top + b.area.bottom
    IN  IF ~SameLine2(aY2, bY2)
        THEN aY2 < bY2
        ELSE a.area.left < b.area.left

\* std::sort on a short range: insertion sort, an element goes to the front
\* when it is less than the first one and is otherwise moved down from the
\* back while it is less than its predecessor
RECURSIVE InsertPos(_, _, _, _)
InsertPos(words, sorted, x, j) ==
    IF j = 0 THEN 0
    ELSE IF EntityLess(words[x], words[sorted[j]])
         THEN InsertPos(words, sorted, x, j - 1)
         ELSE j

InsertEntity(words, sorted, x) ==
    LET j == IF sorted # <<>> /\ EntityLess(words[x], words[sorted[1]])
             THEN 0
             ELSE InsertPos(words, sorted, x, Len(sorted))
    IN  SubSeq(sorted, 1, j) \o <<x>> \o SubSeq(sorted, j + 1, Len(sorted))

RECURSIVE SortEntities(_, _, _)
SortEntities(words, entities, n) ==
    IF n = 0 THEN <<>>
    ELSE InsertEntity(words, SortEntities(words, entities, n - 1), entities[n])

\* the outer loop: the entities that match the area, in list order
MatchingEntities(words, area, useIntersects) ==
    SelectSeq([i \in 1..Len(words) |-> i],
              LAMBDA i : EntityMatches(words[i], area, useIntersects))

\* the concatenation loop over entitiesByBlock, keys ascending; keyOf[i] is
\* the key entity i was appended under
RECURSIVE ConcatGroups(_, _, _, _)
ConcatGroups(words, matching, keyOf, keys) ==
    IF keys = {} THEN <<>>
    ELSE LET key   == CHOOSE k \in keys : \A o \in keys : k <= o
             group == SelectSeq(matching, LAMBDA i : keyOf[i] = key)
         IN  SortEntities(words, group, Len(group))
             \o ConcatGroups(words, matching, keyOf, keys \ {key})

\* the entities whose text is emitted, in the order it is emitted
ExtractedEntities(words, blocks, area, useIntersects) ==
    LET matching == MatchingEntities(words, area, useIntersects)
        keyOf    == [i \in Range(matching) |-> GroupKey(words[i].area, blocks)]
    IN  ConcatGroups(words, matching, keyOf, {keyOf[i] : i \in DOMAIN keyOf})

\* the QString returned, kept as the sequence of the texts appended to it
extractTextInReadingOrder(words, blocks, area, useIntersects) ==
    LET entities == ExtractedEntities(words, blocks, area, useIntersects)
    IN  [k \in 1..Len(entities) |-> words[entities[k]].text]

(***************************************************************************)
(* Pure geometric selection between two cursors.  Two fragments are on the *)
(* same line when their centres are at most SameLineTolerance apart        *)
(* vertically; fragments are otherwise ordered top to bottom, and left to  *)
(* right on a line.  A cursor is on the line of the fragment it is inside  *)
(* of, and on its own height when it is inside none.                       *)
(***************************************************************************)
RECURSIVE FirstEntityAt(_, _, _)
FirstEntityAt(words, p, i) ==
    IF i > Len(words) THEN 0
    ELSE IF RectContains(words[i].area, p.x, p.y) THEN i
    ELSE FirstEntityAt(words, p, i + 1)

\* twice the height of the line the cursor is on
CursorLine2(words, p) ==
    LET hit == FirstEntityAt(words, p, 1)
    IN  IF hit # 0 THEN Center2(words[hit].area).y ELSE 2 * p.y

\* the fragment ends before the cursor on the line of height pY2 / 2
EntityBeforeCursor(entity, p, pY2) ==
    LET eY2 == Center2(entity.area).y
    IN  IF SameLine2(eY2, pY2) THEN entity.area.right < p.x ELSE eY2 < pY2

\* the fragment begins after the cursor on the line of height pY2 / 2
EntityAfterCursor(entity, p, pY2) ==
    LET eY2 == Center2(entity.area).y
    IN  IF SameLine2(eY2, pY2) THEN entity.area.left > p.x ELSE eY2 > pY2

\* cursor p is not after cursor q
CursorPrecedes(words, p, q) ==
    LET pY2 == CursorLine2(words, p)
        qY2 == CursorLine2(words, q)
    IN  IF SameLine2(pY2, qY2) THEN p.x <= q.x ELSE pY2 < qY2

\* the fragments from cursor first on
FromCursor(words, first) ==
    LET pY2 == CursorLine2(words, first)
    IN  {i \in 1..Len(words) : ~EntityBeforeCursor(words[i], first, pY2)}

\* the fragments up to cursor last
UpToCursor(words, last) ==
    LET pY2 == CursorLine2(words, last)
    IN  {i \in 1..Len(words) : ~EntityAfterCursor(words[i], last, pY2)}

\* the fragments from the earlier cursor to the later one, in list order
geometricSelection(words, start, end) ==
    LET forward == CursorPrecedes(words, start, end)
        from    == FromCursor(words, IF forward THEN start ELSE end)
        upTo    == UpToCursor(words, IF forward THEN end ELSE start)
    IN  SelectSeq([i \in 1..Len(words) |-> i],
                  LAMBDA i : i \in from /\ i \in upTo)

(***************************************************************************)
(* Selection Resolver (TextPage::textArea)                                 *)
(***************************************************************************)
\* mutant: every page counts as a page with blocks
hasLayoutBlocksAlways(blocks) == TRUE

hasLayoutBlocks(blocks) == blocks # <<>>

\* the fragments whose centre lies in a block whose order is in [lo, hi]
InBlocksOfOrders(words, blocks, lo, hi) ==
    LET ptrs == getBlocksInReadingOrderRange(blocks, lo, hi)
    IN  IF ptrs = <<>> THEN {}
        ELSE {i \in 1..Len(words) : isEntityInAnyBlock(words[i].area, ptrs, blocks)}

\* leading block from the cursor on, intermediate blocks whole, trailing
\* block up to the cursor
crossBlockSelection(words, blocks, first, last, minOrder, maxOrder) ==
    LET head   == InBlocksOfOrders(words, blocks, minOrder, minOrder)
                     \cap FromCursor(words, first)
        middle == InBlocksOfOrders(words, blocks, minOrder + 1, maxOrder - 1)
        tail   == InBlocksOfOrders(words, blocks, maxOrder, maxOrder)
                     \cap UpToCursor(words, last)
    IN  SelectSeq([i \in 1..Len(words) |-> i],
                  LAMBDA i : i \in head \cup middle \cup tail)

\* the geometric selection filtered by membership in the blocks of the range
sameOrderSelection(words, blocks, start, end, order) ==
    LET ptrs == getBlocksInReadingOrderRange(blocks, order, order)
    IN  SelectSeq(geometricSelection(words, start, end),
                  LAMBDA i : isEntityInAnyBlock(words[i].area, ptrs, blocks))

needsFallback(blocks, startBlock, endBlock) ==
    \/ startBlock = nullptr
    \/ endBlock = nullptr
    \/ blocks[startBlock].readingOrder = -1
    \/ blocks[endBlock].readingOrder = -1

\* which of the four ways textArea computes the selection
textAreaPath(blocks, startBlock, endBlock) ==
    IF ~hasLayoutBlocks(blocks) THEN "geometric"
    ELSE IF needsFallback(blocks, startBlock, endBlock) THEN "fallback"
    ELSE IF blocks[startBlock].readingOrder = blocks[endBlock].readingOrder
         THEN "sameOrder"
    ELSE "crossBlock"

\* the entities textArea appends to the area it returns
textAreaEntities(words, blocks, start, end) ==
    LET startBlock == findBlockForCursor(blocks, start)
        endBlock   == findBlockForCursor(blocks, end)
        path       == textAreaPath(blocks, startBlock, endBlock)
        startOrder == blocks[startBlock].readingOrder
        endOrder   == blocks[endBlock].readingOrder
    IN  CASE path = "geometric" -> geometricSelection(words, start, end)
          [] path = "fallback"  -> geometricSelection(words, start, end)
          [] path = "sameOrder" ->
                sameOrderSelection(words, blocks, start, end, startOrder)
          [] path = "crossBlock" ->
                IF startOrder < endOrder
                THEN crossBlockSelection(words, blocks, start, end,
                                         startOrder, endOrder)
                ELSE crossBlockSelection(words, blocks, end, start,
                                         endOrder, startOrder)

\* TextPage::text(area): block order on a page with blocks, list order else
textEntities(words, blocks, area, useIntersects) ==
    IF hasLayoutBlocks(blocks)
    THEN ExtractedEntities(words, blocks, area, useIntersects)
    ELSE MatchingEntities(words, area, useIntersects)

(***************************************************************************)
(* Pages: the layouts of the autotests and a family of generated layouts   *)
(***************************************************************************)
\* testCrossBlockSelectionTwoColumn
TwoColumnWords ==
    << TextEntity("Left",    Rect(100, 100, 200, 150)),
       TextEntity("Column",  Rect(100, 200, 250, 250)),
       TextEntity("Text",    Rect(100, 300, 200, 350)),
       TextEntity("Right",   Rect(600, 100, 700, 150)),
       TextEntity("Column",  Rect(600, 200, 750, 250)),
       TextEntity("Content", Rect(600, 300, 750, 350)) >>

TwoColumnBlocks ==
    << LayoutBlock("left",  Rect(0, 0, 450, 1000), 0),
       LayoutBlock("right", Rect(550, 0, 1000, 1000), 1) >>

\* the same page with fragments that straddle the edges of the columns and
\* with the two columns interleaved in the list
TwoColumnWordsMixed ==
    << TextEntity("Right",   Rect(600, 100, 700, 150)),
       TextEntity("Left",    Rect(100, 100, 200, 150)),
       TextEntity("StraL",   Rect(400, 400, 490, 450)),
       TextEntity("StraR",   Rect(510, 400, 600, 450)),
       TextEntity("Column",  Rect(100, 200, 250, 250)),
       TextEntity("Gutter",  Rect(470, 500, 530, 550)),
       TextEntity("Content", Rect(600, 300, 750, 350)) >>

TwoColumnPoints ==
    { Pt(100, 100), Pt(250, 250), Pt(750, 350),
      Pt(150, 125), Pt(150, 325), Pt(445, 425), Pt(0, 0), Pt(450, 1000),
      Pt(300, 600), Pt(650, 125), Pt(555, 425), Pt(800, 600), Pt(500, 525),
      Pt(451, 500) }

\* testCrossBlockSelectionWithFullWidthBlocks
SixBlockWords ==
    << TextEntity("Header",   Rect(100, 20, 900, 80)),
       TextEntity("LeftTop",  Rect(100, 150, 350, 250)),
       TextEntity("LeftBot",  Rect(100, 350, 350, 450)),
       TextEntity("RightTop", Rect(600, 150, 850, 250)),
       TextEntity("RightBot", Rect(600, 350, 850, 450)),
       TextEntity("Footer",   Rect(100, 550, 900, 650)) >>

SixBlockBlocks ==
    << LayoutBlock("header",    Rect(0, 0, 1000, 100), 0),
       LayoutBlock("left_top",  Rect(0, 100, 450, 300), 1),
       LayoutBlock("left_bot",  Rect(0, 300, 450, 500), 2),
       LayoutBlock("right_top", Rect(550, 100, 1000, 300), 3),
       LayoutBlock("right_bot", Rect(550, 300, 1000, 500), 4),
       LayoutBlock("footer",    Rect(0, 500, 1000, 700), 5) >>

SixBlockPoints ==
    { Pt(100, 350), Pt(900, 650),
      Pt(500, 50), Pt(225, 200), Pt(225, 400), Pt(400, 480), Pt(50, 310),
      Pt(725, 200), Pt(725, 400), Pt(500, 600), Pt(950, 690), Pt(500, 400),
      Pt(500, 900) }

\* testCrossBlockSelectionReadingOrderJump
JumpWords ==
    << TextEntity("L1", Rect(100, 100, 200, 200)),
       TextEntity("L2", Rect(100, 250, 200, 350)),
       TextEntity("L3", Rect(100, 400, 200, 500)),
       TextEntity("R1", Rect(600, 100, 700, 200)),
       TextEntity("R2", Rect(600, 250, 700, 350)),
       TextEntity("R3", Rect(600, 400, 700, 500)),
       TextEntity("Footer", Rect(100, 600, 900, 700)) >>

JumpBlocks ==
    << LayoutBlock("left",   Rect(0, 0, 450, 550), 0),
       LayoutBlock("right",  Rect(550, 0, 1000, 550), 1),
       LayoutBlock("footer", Rect(0, 550, 1000, 750), 2) >>

JumpPoints ==
    { Pt(100, 400), Pt(900, 700), Pt(100, 100), Pt(350, 500),
      Pt(150, 300), Pt(150, 450), Pt(650, 150), Pt(650, 300), Pt(650, 450),
      Pt(500, 650), Pt(500, 300), Pt(300, 540) }

\* testCrossBlockSelectionLinePrecision
LinePrecisionWords ==
    << TextEntity("L1", Rect(100, 100, 200, 110)),
       TextEntity("L2", Rect(100, 119, 200, 129)),
       TextEntity("R1", Rect(600, 150, 700, 160)) >>

LinePrecisionBlocks ==
    << LayoutBlock("left",  Rect(0, 0, 450, 1000), 0),
       LayoutBlock("right", Rect(550, 0, 1000, 1000), 1) >>

LinePrecisionPoints ==
    { Pt(100, 124), Pt(650, 155), Pt(150, 105), Pt(150, 120), Pt(200, 129),
      Pt(100, 114), Pt(300, 124), Pt(650, 124), Pt(500, 140), Pt(50, 90),
      Pt(700, 160), Pt(800, 300) }

\* generated layouts: up to MaxBlocks blocks out of the candidate rectangles
\* (two of them overlap), each with any order from -1 to MaxOrder
MaxBlocks == 3

MaxOrder == 2

CandidateRects ==
    << Rect(0, 0, 450, 500),
       Rect(400, 0, 900, 500),
       Rect(0, 600, 900, 800),
       Rect(0, 850, 900, 950),
       Rect(920, 0, 1000, 950) >>

CandidateIds == << "A", "B", "C", "D", "E" >>

Absent == MaxOrder + 1

RECURSIVE GeneratedBlocks(_, _)
GeneratedBlocks(orders, i) ==
    IF i = 0 THEN <<>>
    ELSE IF orders[i] = Absent THEN GeneratedBlocks(orders, i - 1)
    ELSE Append(GeneratedBlocks(orders, i - 1),
                LayoutBlock(CandidateIds[i], CandidateRects[i], orders[i]))

GeneratedBlockLists ==
    { GeneratedBlocks(orders, MaxBlocks) :
        orders \in [1..MaxBlocks -> -1..Absent] }

GeneratedWords ==
    << TextEntity("a2",  Rect(200, 105, 300, 125)),
       TextEntity("a1",  Rect(50, 100, 150, 120)),
       TextEntity("a3",  Rect(50, 130, 150, 150)),
       TextEntity("b1",  Rect(600, 100, 700, 120)),
       TextEntity("ab",  Rect(410, 20, 440, 40)),
       TextEntity("b2",  Rect(600, 300, 700, 320)),
       TextEntity("c1",  Rect(100, 650, 200, 670)),
       TextEntity("gap", Rect(100, 540, 200, 560)),
       TextEntity("c2",  Rect(300, 650, 400, 670)) >>

GeneratedPoints ==
    { Pt(100, 110), Pt(100, 140), Pt(425, 30), Pt(650, 310),
      Pt(150, 660), Pt(150, 550) }

WordLists ==
    { TwoColumnWords, TwoColumnWordsMixed, SixBlockWords, JumpWords,
      LinePrecisionWords, GeneratedWords }

\* the block lists a page is given, the empty list among them
BlockListsFor(words) ==
    CASE words \in {TwoColumnWords, TwoColumnWordsMixed} -> {<<>>, TwoColumnBlocks}
      [] words = SixBlockWords      -> {<<>>, SixBlockBlocks}
      [] words = JumpWords          -> {<<>>, JumpBlocks}
      [] words = LinePrecisionWords -> {<<>>, LinePrecisionBlocks}
      [] OTHER                      -> GeneratedBlockLists

\* the cursor positions tried on a page
PointsFor(words) ==
    CASE words \in {TwoColumnWords, TwoColumnWordsMixed} -> TwoColumnPoints
      [] words = SixBlockWords      -> SixBlockPoints
      [] words = JumpWords          -> JumpPoints
      [] words = LinePrecisionWords -> LinePrecisionPoints
      [] OTHER                      -> GeneratedPoints

(***************************************************************************)
(* The page as a state machine                                             *)
(***************************************************************************)
VARIABLES
    m_words,         \* TextPagePrivate::m_words
    m_layoutBlocks,  \* TextPagePrivate::m_layoutBlocks
    selection,       \* the last result of textArea, with its two cursors
    extraction,      \* the last result of text(area)
    call             \* the call of a query or helper in progress, with its result

vars == << m_words, m_layoutBlocks, selection, extraction, call >>

NoSelection ==
    [ path |-> "none", start |-> Pt(0, 0), end |-> Pt(0, 0),
      startBlock |-> nullptr, endBlock |-> nullptr,
      entities |-> <<>>, area |-> <<>> ]

NoExtraction ==
    [ done |-> FALSE, useIntersects |-> FALSE, entities |-> <<>>, text |-> <<>> ]

NoCall == [ op |-> "none", args |-> <<>>, result |-> <<>>, locals |-> <<>> ]

\* TextPage(words): a page is created with its fragments and without blocks
Init ==
    /\ m_words \in WordLists
    /\ m_layoutBlocks = <<>>
    /\ selection = NoSelection
    /\ extraction = NoExtraction
    /\ call = NoCall

\* TextPage::setLayoutBlocks: the whole list is replaced
SetLayoutBlocks(blocks) ==
    /\ selection.path = "none"
    /\ m_layoutBlocks' = blocks
    /\ selection' = NoSelection
    /\ extraction' = NoExtraction
    /\ UNCHANGED m_words

\* TextPage::textArea(selection): the area of the fragments selected
TextArea(start, end) ==
    LET startBlock == findBlockForCursor(m_layoutBlocks, start)
        endBlock   == findBlockForCursor(m_layoutBlocks, end)
        entities   == textAreaEntities(m_words, m_layoutBlocks, start, end)
    IN  /\ selection.path = "none"
        /\ selection' =
              [ path |-> textAreaPath(m_layoutBlocks, startBlock, endBlock),
                start |-> start, end |-> end,
                startBlock |-> startBlock, endBlock |-> endBlock,
                entities |-> entities,
                area |-> [k \in 1..Len(entities) |-> m_words[entities[k]].area] ]
        /\ extraction' = NoExtraction
        /\ UNCHANGED << m_words, m_layoutBlocks, call >>

\* TextPage::text(area) on the area of the last selection
Text(useIntersects) ==
    LET entities == textEntities(m_words, m_layoutBlocks, selection.area,
                                 useIntersects)
    IN  /\ selection.path # "none"
        /\ ~extraction.done
        /\ extraction' =
              [ done |-> TRUE, useIntersects |-> useIntersects,
                entities |-> entities,
                text |-> [k \in 1..Len(entities) |-> m_words[entities[k]].text] ]
        /\ UNCHANGED << m_words, m_layoutBlocks, selection, call >>

\* the caller lets go of the area and of the text it was returned
Release ==
    /\ selection.path # "none"
    /\ selection' = NoSelection
    /\ extraction' = NoExtraction
    /\ UNCHANGED << m_words, m_layoutBlocks, call >>

\* the blocks of a page are attached once, when the page is loaded
LoadLayout ==
    /\ m_layoutBlocks = <<>>
    /\ selection.path = "none"
    /\ \E blocks \in BlockListsFor(m_words) : SetLayoutBlocks(blocks)
    /\ UNCHANGED call

\* a selection gesture on a page that holds no selection
Select ==
    /\ selection.path = "none"
    /\ \E start, end \in PointsFor(m_words) : TextArea(start, end)

\* and are cleared by setting the empty list
ClearLayout == SetLayoutBlocks(<<>>) /\ UNCHANGED call

Next ==
    \/ LoadLayout
    \/ ClearLayout
    \/ Select
    \/ \E useIntersects \in BOOLEAN : Text(useIntersects)
    \/ Release

Spec == Init /\ [][Next]_vars

(***************************************************************************)
(* Properties                                                              *)
(***************************************************************************)
Order(b) == m_layoutBlocks[b].readingOrder

HasSelection == selection.path # "none"

\* the fragments of the last selection, and of the text extracted from it
Selected == Range(selection.entities)

Extracted == Range(extraction.entities)

Results == {Selected} \cup (IF extraction.done THEN {Extracted} ELSE {})

\* the start resolved to an earlier block than the end
CrossForward ==
    /\ selection.path = "crossBlock"
    /\ Order(selection.startBlock) < Order(selection.endBlock)

\* the centre of fragment i lies in block b
CentreIn(i, b) ==
    LET a == m_words[i].area
        box == m_layoutBlocks[b].bbox
    IN  /\ 2 * box.left <= a.left + a.right /\ a.left + a.right <= 2 * box.right
        /\ 2 * box.top <= a.top + a.bottom  /\ a.top + a.bottom <= 2 * box.bottom

BlocksOf(i) == {b \in 1..Len(m_layoutBlocks) : CentreIn(i, b)}

\* the owning block: the first block of the list holding the centre
OwningBlock(i) ==
    IF BlocksOf(i) = {} THEN nullptr
    ELSE CHOOSE b \in BlocksOf(i) : \A c \in BlocksOf(i) : b <= c

\* the centre of fragment i lies in a block whose order is in lo..hi
CentreInOrders(i, lo, hi) == \E b \in BlocksOf(i) : Order(b) \in lo..hi

TextIs(t) == extraction.done /\ extraction.text = t

SelectionIs(blocks, start, end) ==
    /\ HasSelection
    /\ m_layoutBlocks = blocks
    /\ selection.start = start
    /\ selection.end = end

\* the selection of the six-block autotest: from LeftBot to the end of Footer
SixBlockTestSelection == SelectionIs(SixBlockBlocks, Pt(100, 350), Pt(900, 650))

\* in the six-block layout, the start lies in left_bot (order 2) and the end
\* in footer (order 5)
SixBlockFromTwoToFive ==
    /\ HasSelection
    /\ m_layoutBlocks = SixBlockBlocks
    /\ BlockContainsPoint(SixBlockBlocks[3], selection.start)
    /\ BlockContainsPoint(SixBlockBlocks[6], selection.end)
    /\ ~BlockContainsPoint(SixBlockBlocks[2], selection.start)

\* the part of C1 about the six-block layout: a selection from block 2 to
\* block 5 holds the fragments of blocks 3 and 4 and none of blocks 0 and 1;
\* the selection of the autotest holds LeftBot, RightTop, RightBot and
\* Footer, and its text is these four in reading order
C1_SixBlockLayout ==
    /\ SixBlockFromTwoToFive =>
          \A S \in Results : {4, 5} \subseteq S /\ S \cap {1, 2} = {}
    /\ SixBlockTestSelection =>
          /\ Selected = {3, 4, 5, 6}
          /\ extraction.done =>
                extraction.text = <<"LeftBot", "RightTop", "RightBot", "Footer">>

StartOrder == Order(selection.startBlock)

EndOrder == Order(selection.endBlock)

\* C2: in a cross-block selection from order m to order M > m, every fragment
\* whose centre lies in a block of an order strictly between m and M is in
\* the selection and in its text, wherever the cursors are in their blocks
C2_IntermediateBlocksWhole ==
    CrossForward =>
       \A i \in 1..Len(m_words) :
          CentreInOrders(i, StartOrder + 1, EndOrder - 1) =>
             \A S \in Results : i \in S

\* the text of the reading-order-jump autotest has been extracted: the whole
\* right column lies between the cursors' blocks
C2_Witness ==
    /\ SelectionIs(JumpBlocks, Pt(100, 400), Pt(900, 700))
    /\ CrossForward
    /\ CentreInOrders(4, StartOrder + 1, EndOrder - 1)
    /\ TextIs(<<"L3", "R1", "R2", "R3", "Footer">>)

\* fragment i ends before cursor p: on an earlier line, or on the cursor's
\* line and left of it
LiesBefore(i, p) ==
    LET eY2 == m_words[i].area.top + m_words[i].area.bottom
        pY2 == CursorLine2(m_words, p)
    IN  IF Abs(eY2 - pY2) <= 2 * SameLineTolerance
        THEN m_words[i].area.right < p.x
        ELSE eY2 < pY2

\* fragment i begins after cursor p
LiesAfter(i, p) ==
    LET eY2 == m_words[i].area.top + m_words[i].area.bottom
        pY2 == CursorLine2(m_words, p)
    IN  IF Abs(eY2 - pY2) <= 2 * SameLineTolerance
        THEN m_words[i].area.left > p.x
        ELSE eY2 > pY2

LinePrecisionTestSelection ==
    SelectionIs(LinePrecisionBlocks, Pt(100, 124), Pt(650, 155))

\* the part of C4 about the three fragments at [0.100,0.110], [0.119,0.129]
\* and [0.150,0.160]: the selection from y=0.124 to inside the third holds
\* the second and the third and not the first
C4_ThreeFragments ==
    LinePrecisionTestSelection =>
       /\ Selected = {2, 3}
       /\ extraction.done => extraction.text = <<"L2", "R1">>

\* fragment f is more than the tolerance above fragment g
LineAbove(f, g) ==
    (m_words[g].area.top + m_words[g].area.bottom)
       - (m_words[f].area.top + m_words[f].area.bottom) > 2 * SameLineTolerance

\* the start cursor is inside fragment g, the first such in the list, and g
\* is a fragment of the start block
StartInside(g) ==
    /\ FirstEntityAt(m_words, selection.start, 1) = g
    /\ CentreIn(g, selection.startBlock)

PointIn(p, b) ==
    LET box == m_layoutBlocks[b].bbox
    IN  /\ box.left <= p.x /\ p.x <= box.right
        /\ box.top <= p.y  /\ p.y <= box.bottom

\* both cursors of the selection are in block b
BothCursorsIn(b) == PointIn(selection.start, b) /\ PointIn(selection.end, b)

\* C5: with the left block [0,0,0.45,1] of order 0 and the right block
\* [0.55,0,1,1] of order 1, a selection with both cursors in the left block
\* holds no fragment whose centre is in the right block, nor does its text;
\* and the same with left and right exchanged
C5_TwoColumnIsolation ==
    (HasSelection /\ m_layoutBlocks = TwoColumnBlocks) =>
       /\ BothCursorsIn(1) => \A S \in Results : \A i \in S : ~CentreIn(i, 2)
       /\ BothCursorsIn(2) => \A S \in Results : \A i \in S : ~CentreIn(i, 1)

\* a selection inside the left column past the height of words of the right
\* column, with its text, and nothing of the right column in it
C5_Witness ==
    /\ SelectionIs(TwoColumnBlocks, Pt(150, 125), Pt(150, 325))
    /\ m_words = TwoColumnWordsMixed
    /\ BothCursorsIn(1)
    /\ TextIs(<<"Left", "Column">>)

\* the order cursor p resolves to, and -1 when it resolves to no block
ResolvedOrder(p) ==
    LET b == findBlockForCursor(m_layoutBlocks, p)
    IN  IF b = nullptr THEN -1 ELSE Order(b)

\* end point e2 resolves later in reading order than the end of the selection
ResolvesLater(e2) ==
    /\ selection.endBlock # nullptr
    /\ EndOrder >= 0
    /\ ResolvedOrder(e2) > EndOrder

\* the fragments of the selection from the same start to end point e2
SelectedUpTo(e2) ==
    Range(textAreaEntities(m_words, m_layoutBlocks, selection.start, e2))

\* C6 as stated: on a page with blocks, for a selection (start, e1) and any
\* end point e2 that resolves later in reading order than e1, every fragment
\* of the selection and of its text is in the selection (start, e2)
C6_Original ==
    (HasSelection /\ hasLayoutBlocks(m_layoutBlocks)) =>
       \A e2 \in PointsFor(m_words) :
          ResolvesLater(e2) =>
             \A S \in Results : S \subseteq SelectedUpTo(e2)

\* the start of the selection is not after its end in reading order: it
\* resolves to an earlier order, or to the same order and is not after the
\* end on the page
StartNotAfterEnd ==
    /\ selection.startBlock # nullptr
    /\ StartOrder >= 0
    /\ \/ StartOrder < EndOrder
       \/ /\ StartOrder = EndOrder
          /\ CursorPrecedes(m_words, selection.start, selection.end)

\* C6 as amended: on a page with blocks, for a selection (start, e1) whose
\* start is not after e1 in reading order and any end point e2 that resolves
\* later in reading order than e1, every fragment of the selection and of
\* its text is in the selection (start, e2)
C6_RoundTripMonotonicity ==
    (HasSelection /\ hasLayoutBlocks(m_layoutBlocks)) =>
       \A e2 \in PointsFor(m_words) :
          (ResolvesLater(e2) /\ StartNotAfterEnd) =>
             \A S \in Results : S \subseteq SelectedUpTo(e2)

\* a cross-block selection, with its text, that a later end point extends by
\* at least one fragment
C6_Witness ==
    /\ CrossForward
    /\ extraction.done
    /\ Selected # {}
    /\ \E e2 \in PointsFor(m_words) :
          /\ ResolvesLater(e2)
          /\ Selected \subseteq SelectedUpTo(e2)
          /\ SelectedUpTo(e2) # Selected

\* C7: on a page whose block list is empty, every selection is the geometric
\* selection between its two cursors, its text is the text of the fragments
\* matching the area in the order of the list, and no block path is taken
C7_NoBlockFallback ==
    (HasSelection /\ m_layoutBlocks = <<>>) =>
       /\ selection.path = "geometric"
       /\ selection.entities =
             geometricSelection(m_words, selection.start, selection.end)
       /\ extraction.done =>
             /\ extraction.entities =
                   SelectSeq([i \in 1..Len(m_words) |-> i],
                             LAMBDA i : i \in Selected)
             /\ extraction.text =
                   [k \in 1..Len(extraction.entities) |->
                       m_words[extraction.entities[k]].text]

\* a selection across the two columns of a page without blocks, whose text
\* comes in the order of the list and not column by column
C7_Witness ==
    /\ m_layoutBlocks = <<>>
    /\ m_words = TwoColumnWordsMixed
    /\ selection.start = Pt(100, 100)
    /\ selection.end = Pt(750, 350)
    /\ TextIs(<<"Right", "Left", "Column", "Content">>)

\* the first block of the list whose box holds point p, nullptr when none
FirstBlockAt(p) ==
    LET holding == {b \in 1..Len(m_layoutBlocks) : PointIn(p, b)}
    IN  IF holding = {} THEN nullptr
        ELSE CHOOSE b \in holding : \A c \in holding : b <= c

\* cursor p is inside a block out of the flow, or no block of the page is in
\* the flow
OutOfFlowAt(p) ==
    \/ FirstBlockAt(p) # nullptr /\ Order(FirstBlockAt(p)) = -1
    \/ \A b \in 1..Len(m_layoutBlocks) : Order(b) = -1

\* findBlockForCursor gave no block for b, or a block out of the flow
NoneOrOutOfFlow(b) == b = nullptr \/ Order(b) = -1

\* C8: on a page with blocks, when a cursor resolves to no block or to a
\* block of order -1, as it does when it is inside a block of order -1 or
\* when no block is in the flow, the selection is the geometric selection
\* between the two cursors, and a selection is always produced
C8_OutOfFlowFallback ==
    (HasSelection /\ hasLayoutBlocks(m_layoutBlocks)) =>
       /\ (OutOfFlowAt(selection.start) \/ OutOfFlowAt(selection.end))
             => (NoneOrOutOfFlow(selection.startBlock)
                    \/ NoneOrOutOfFlow(selection.endBlock))
       /\ (NoneOrOutOfFlow(selection.startBlock)
              \/ NoneOrOutOfFlow(selection.endBlock))
             => /\ selection.path = "fallback"
                /\ selection.entities =
                      geometricSelection(m_words, selection.start, selection.end)
       /\ selection.path \in {"fallback", "sameOrder", "crossBlock"}

\* a selection from inside a block of order -1 into a block of the flow,
\* which fell back and selected fragments of a block of neither cursor
C8_Witness ==
    /\ HasSelection
    /\ hasLayoutBlocks(m_layoutBlocks)
    /\ selection.startBlock # nullptr
    /\ StartOrder = -1
    /\ selection.endBlock # nullptr
    /\ EndOrder >= 0
    /\ selection.path = "fallback"
    /\ \E i \in Selected :
          BlocksOf(i) # {} /\ BlocksOf(i) \cap {selection.startBlock,
                                                selection.endBlock} = {}

\* both cursors resolved, and to the same order
SameOrderResolved ==
    /\ HasSelection
    /\ hasLayoutBlocks(m_layoutBlocks)
    /\ selection.startBlock # nullptr
    /\ selection.endBlock # nullptr
    /\ StartOrder = EndOrder

C10_PointContainmentInclusive ==
    (HasSelection /\ hasLayoutBlocks(m_layoutBlocks)) =>
       /\ \A b \in 1..Len(m_layoutBlocks) :
             \A p \in {selection.start, selection.end} :
                BlockContainsPoint(m_layoutBlocks[b], p) <=> PointIn(p, b)
       /\ FirstBlockAt(selection.start) # nullptr
             => selection.startBlock = FirstBlockAt(selection.start)
       /\ FirstBlockAt(selection.end) # nullptr
             => selection.endBlock = FirstBlockAt(selection.end)

\* a selection from the top left corner of the left column to the point of
\* its bottom edge at its right edge, and a point just beyond that edge
C10_Witness ==
    /\ SelectionIs(TwoColumnBlocks, Pt(0, 0), Pt(450, 1000))
    /\ selection.startBlock = 1
    /\ selection.endBlock = 1
    /\ selection.path = "sameOrder"
    /\ ~BlockContainsPoint(TwoColumnBlocks[1], Pt(451, 500))

(***************************************************************************)
(* The registry alone: setLayoutBlocks, hasLayoutBlocks and the two        *)
(* contains of a block, called in any order                                *)
(***************************************************************************)
\* testLayoutBlockContainsRect: the left half of the page
HalfPageBlock == LayoutBlock("half", Rect(0, 0, 500, 1000), 0)

\* testLayoutBlockContainsPointEdgeCases
EdgeCaseBlock == LayoutBlock("small", Rect(250, 250, 750, 750), 0)

RegistryBlockLists ==
    { <<>>, <<HalfPageBlock>>, <<EdgeCaseBlock>>, TwoColumnBlocks,
      SixBlockBlocks, JumpBlocks }

\* the rectangles of testLayoutBlockContainsRect and of
\* testLayoutBlockContainsRectSpanningBoundary, then rectangles whose centre
\* is half a unit off the right edge of the half page, rectangles that cover
\* the whole half page, and one that lies in it
RegistryRects ==
    { Rect(100, 300, 300, 700), Rect(600, 300, 900, 700),
      Rect(300, 300, 600, 700), Rect(400, 300, 800, 700),
      Rect(400, 300, 600, 700),
      Rect(399, 300, 600, 700), Rect(400, 300, 601, 700),
      Rect(0, 0, 1000, 1000), Rect(0, 0, 1002, 1000),
      Rect(260, 260, 300, 300) }

\* the points of testLayoutBlockContainsPoint and of
\* testLayoutBlockContainsPointEdgeCases
RegistryPoints ==
    { Pt(200, 500), Pt(700, 500), Pt(0, 0), Pt(450, 1000),
      Pt(250, 500), Pt(750, 500), Pt(500, 250), Pt(500, 750),
      Pt(240, 500), Pt(760, 500) }

\* a page is created with or without fragments, and without blocks
RegistryInit ==
    /\ m_words \in {<<>>, TwoColumnWords}
    /\ m_layoutBlocks = <<>>
    /\ selection = NoSelection
    /\ extraction = NoExtraction
    /\ call = NoCall

\* textPage.setLayoutBlocks(blocks), whatever the list of the page is
RegistrySetLayoutBlocks ==
    \E blocks \in RegistryBlockLists :
       /\ SetLayoutBlocks(blocks)
       /\ call' = [op |-> "setLayoutBlocks", args |-> <<blocks>>, result |-> <<>>, locals |-> <<>>]

\* textPage.hasLayoutBlocks()
RegistryHasLayoutBlocks ==
    /\ call' = [op |-> "hasLayoutBlocks", args |-> <<>>,
                result |-> hasLayoutBlocks(m_layoutBlocks), locals |-> <<>>]
    /\ UNCHANGED << m_words, m_layoutBlocks, selection, extraction >>

\* block.contains(point) for a block of the page
RegistryContainsPoint ==
    \E b \in 1..Len(m_layoutBlocks) : \E p \in RegistryPoints :
       /\ call' = [op |-> "containsPoint", args |-> <<b, p>>,
                   result |-> BlockContainsPoint(m_layoutBlocks[b], p),
                   locals |-> <<>>]
       /\ UNCHANGED << m_words, m_layoutBlocks, selection, extraction >>

\* block.contains(rect) for a block of the page
RegistryContainsRect ==
    \E b \in 1..Len(m_layoutBlocks) : \E r \in RegistryRects :
       /\ call' = [op |-> "containsRect", args |-> <<b, r>>,
                   result |-> BlockContainsRect(m_layoutBlocks[b], r),
                   locals |-> <<>>]
       /\ UNCHANGED << m_words, m_layoutBlocks, selection, extraction >>

RegistryNext ==
    \/ RegistrySetLayoutBlocks
    \/ RegistryHasLayoutBlocks
    \/ RegistryContainsPoint
    \/ RegistryContainsRect

RegistrySpec == RegistryInit /\ [][RegistryNext]_vars

\* the centre of rectangle r is in the box, edges included
CentreOfRectIn(r, box) ==
    /\ 2 * box.left <= r.left + r.right /\ r.left + r.right <= 2 * box.right
    /\ 2 * box.top <= r.top + r.bottom  /\ r.top + r.bottom <= 2 * box.bottom

\* rectangle r reaches out of the box
ReachesOutOf(r, box) ==
    \/ r.left < box.left \/ r.right > box.right
    \/ r.top < box.top   \/ r.bottom > box.bottom

\* C11: block.contains(rect) is true exactly when the centre of the
\* rectangle, ((left+right)/2, (top+bottom)/2), is in the box of the block,
\* edges included, whatever part of the rectangle is in the block
C11_CentroidRule ==
    call.op = "containsRect" =>
       (call.result <=>
           CentreOfRectIn(call.args[2], m_layoutBlocks[call.args[1]].bbox))

\* contains was true of a rectangle that reaches out of the block, its centre
\* on the right edge of the block
C11_Witness ==
    /\ call.op = "containsRect"
    /\ m_layoutBlocks = <<HalfPageBlock>>
    /\ call.args[2] = Rect(400, 300, 600, 700)
    /\ ReachesOutOf(call.args[2], HalfPageBlock.bbox)
    /\ call.result = TRUE

\* what C12 says of a state: hasLayoutBlocks answers whether the list of the
\* page is non-empty, the list of the page is the list last set, and a page
\* nothing was set on has no blocks
C12_State ==
    /\ call.op = "hasLayoutBlocks" => (call.result <=> Len(m_layoutBlocks) > 0)
    /\ call.op = "setLayoutBlocks" => m_layoutBlocks = call.args[1]
    /\ call.op = "none" => m_layoutBlocks = <<>>

\* what C12 says of a step: only setLayoutBlocks changes the list of the page
C12_Step ==
    m_layoutBlocks' # m_layoutBlocks => call'.op = "setLayoutBlocks"

\* C12: after any sequence of setLayoutBlocks calls hasLayoutBlocks is true
\* exactly when the list of the most recent call is non-empty, a new page
\* says false, and the list of the page is exactly the list last set
C12_HasLayoutBlocks == [](C12_State) /\ [][C12_Step]_vars

\* hasLayoutBlocks said true of a page whose list was set to the blocks of
\* the reading-order-jump autotest
C12_Witness ==
    /\ call.op = "hasLayoutBlocks"
    /\ call.result = TRUE
    /\ m_layoutBlocks = JumpBlocks


(***************************************************************************)
(* The Block Locator called on its own: BlockSelectionHelper's functions   *)
(* are static and are given the block list of the page                     *)
(***************************************************************************)
LocatorBlockLists ==
    GeneratedBlockLists \cup {TwoColumnBlocks, SixBlockBlocks, JumpBlocks}

\* cursors inside the generated blocks, where two of them overlap, on their
\* edges, and outside every block: between, below and to the right of them
LocatorPoints ==
    { Pt(100, 110), Pt(425, 30), Pt(650, 310), Pt(150, 660), Pt(450, 500),
      Pt(150, 550), Pt(500, 990), Pt(910, 300), Pt(950, 700), Pt(950, 550),
      Pt(500, 825), Pt(500, 400) }

\* the areas of the fragments tested against a list of block pointers
LocatorAreas == { GeneratedWords[i].area : i \in 1..Len(GeneratedWords) }

\* the lists of block pointers handed to isEntityInAnyBlock: the ranges that
\* getBlocksInReadingOrderRange returns, and lists holding a null pointer
LocatorPointerLists(blocks) ==
    { getBlocksInReadingOrderRange(blocks, lo, hi) : lo, hi \in -1..MaxOrder }
       \cup { <<nullptr>> }
       \cup { <<nullptr, i>> : i \in 1..Len(blocks) }

LocatorInit ==
    /\ m_words = <<>>
    /\ m_layoutBlocks \in LocatorBlockLists
    /\ selection = NoSelection
    /\ extraction = NoExtraction
    /\ call = NoCall

\* what a call of the locator leaves alone
LocatorFrame == UNCHANGED << m_words, m_layoutBlocks, selection, extraction >>

LocatorFindBlockContaining ==
    /\ call = NoCall
    /\ \E p \in LocatorPoints :
          call' = [op |-> "findBlockContaining", args |-> <<p>>,
                   result |-> findBlockContaining(m_layoutBlocks, p),
                   locals |-> <<>>]
    /\ LocatorFrame

\* current is a pointer to a block of the list, or null
LocatorGetNextBlock ==
    /\ call = NoCall
    /\ \E current \in 0..Len(m_layoutBlocks) :
          call' = [op |-> "getNextBlock", args |-> <<current>>,
                   result |-> getNextBlock(m_layoutBlocks, current),
                   locals |-> <<>>]
    /\ LocatorFrame

LocatorGetPreviousBlock ==
    /\ call = NoCall
    /\ \E current \in 0..Len(m_layoutBlocks) :
          \E previous \in getPreviousBlock(m_layoutBlocks, current) :
             call' = [op |-> "getPreviousBlock", args |-> <<current>>,
                      result |-> previous, locals |-> <<>>]
    /\ LocatorFrame

\* locals: directBlock and, when the loop is reached, the bestBlock it keeps
LocatorFindBlockForCursor ==
    /\ call = NoCall
    /\ \E p \in LocatorPoints :
          LET directBlock == findBlockContaining(m_layoutBlocks, p)
          IN  call' = [op |-> "findBlockForCursor", args |-> <<p>>,
                       result |-> findBlockForCursor(m_layoutBlocks, p),
                       locals |->
                          [ directBlock |-> directBlock,
                            bestBlock |->
                               IF directBlock # nullptr THEN nullptr
                               ELSE BestPassed(m_layoutBlocks, p, 1, nullptr, -1) ]]
    /\ LocatorFrame

LocatorGetBlocksInReadingOrderRange ==
    /\ call = NoCall
    /\ \E minOrder, maxOrder \in -1..MaxOrder :
          call' = [op |-> "getBlocksInReadingOrderRange",
                   args |-> <<minOrder, maxOrder>>,
                   result |-> getBlocksInReadingOrderRange(m_layoutBlocks,
                                                           minOrder, maxOrder),
                   locals |-> <<>>]
    /\ LocatorFrame

LocatorIsEntityInAnyBlock ==
    /\ call = NoCall
    /\ \E entityArea \in LocatorAreas :
          \E ptrs \in LocatorPointerLists(m_layoutBlocks) :
             call' = [op |-> "isEntityInAnyBlock", args |-> <<entityArea, ptrs>>,
                      result |-> isEntityInAnyBlock(entityArea, ptrs,
                                                    m_layoutBlocks),
                      locals |-> <<>>]
    /\ LocatorFrame

\* the call returns to its caller
LocatorReturn ==
    /\ call # NoCall
    /\ call' = NoCall
    /\ LocatorFrame

LocatorNext ==
    \/ LocatorFindBlockContaining
    \/ LocatorGetNextBlock
    \/ LocatorGetPreviousBlock
    \/ LocatorFindBlockForCursor
    \/ LocatorGetBlocksInReadingOrderRange
    \/ LocatorIsEntityInAnyBlock
    \/ LocatorReturn

LocatorSpec == LocatorInit /\ [][LocatorNext]_vars

\* block b is the only block of the list with its readingOrder
OnlyOneOfItsOrder(b) ==
    \A j \in 1..Len(m_layoutBlocks) :
       m_layoutBlocks[j].readingOrder = m_layoutBlocks[b].readingOrder => j = b

\* C13 as stated: whenever getPreviousBlock is called on a block n that is
\* the successor getNextBlock returns for a block b, it returns b itself,
\* also in lists where several blocks have the same readingOrder.
C13_Original ==
    call.op = "getPreviousBlock" /\ call.args[1] # nullptr =>
       \A b \in 1..Len(m_layoutBlocks) :
          getNextBlock(m_layoutBlocks, b) = call.args[1] => call.result = b

\* C13: successor/predecessor symmetry.  Whenever getPreviousBlock is called
\* on a block n that is the successor getNextBlock returns for a block b,
\* and b is the only block of the list with its readingOrder, the call
\* returns b itself.
C13_SuccessorPredecessorSymmetry ==
    call.op = "getPreviousBlock" /\ call.args[1] # nullptr =>
       \A b \in 1..Len(m_layoutBlocks) :
          /\ getNextBlock(m_layoutBlocks, b) = call.args[1]
          /\ OnlyOneOfItsOrder(b)
          => call.result = b

\* getPreviousBlock has returned b for the successor of b, in a list where two
\* other blocks share the readingOrder of that successor
C13_Witness ==
    /\ call.op = "getPreviousBlock"
    /\ call.args[1] # nullptr
    /\ call.result # nullptr
    /\ getNextBlock(m_layoutBlocks, call.result) = call.args[1]
    /\ OnlyOneOfItsOrder(call.result)
    /\ ~OnlyOneOfItsOrder(call.args[1])


\* the blocks of the list whose readingOrder is order
BlocksWithOrder(order) ==
    {i \in 1..Len(m_layoutBlocks) : m_layoutBlocks[i].readingOrder = order}

\* C14: getNextBlock(current) returns the first block in iteration order whose
\* readingOrder equals current.readingOrder + 1, and none when no block has
\* exactly that order, blocks of higher orders or not, or when current is null.
C14_StrictSuccessor ==
    call.op = "getNextBlock" =>
       LET current == call.args[1]
           next    == BlocksWithOrder(m_layoutBlocks[current].readingOrder + 1)
       IN  IF current = nullptr \/ next = {}
           THEN call.result = nullptr
           ELSE /\ call.result \in next
                /\ \A j \in next : call.result <= j

\* getNextBlock has returned none for a block of order 0 in a list that has a
\* block of order 2 and no block of order 1
C14_Witness ==
    /\ call.op = "getNextBlock"
    /\ call.args[1] # nullptr
    /\ m_layoutBlocks[call.args[1]].readingOrder = 0
    /\ BlocksWithOrder(1) = {}
    /\ BlocksWithOrder(2) # {}
    /\ call.result = nullptr

\* C15: when the point lies inside at least one block, findBlockForCursor
\* returns what findBlockContaining returns: the first block in list order
\* that contains the point, also when blocks overlap and when that block has
\* readingOrder -1.
C15_DirectHit ==
    call.op = "findBlockForCursor" =>
       LET p    == call.args[1]
           hits == {i \in 1..Len(m_layoutBlocks) : PointIn(p, i)}
       IN  hits # {} =>
              /\ call.result = findBlockContaining(m_layoutBlocks, p)
              /\ call.result \in hits
              /\ \A j \in hits : call.result <= j

\* findBlockForCursor has returned the first of two overlapping blocks that
\* hold the point, a block of readingOrder -1 listed before a block of the flow
C15_Witness ==
    /\ call.op = "findBlockForCursor"
    /\ call.result # nullptr
    /\ m_layoutBlocks[call.result].readingOrder = -1
    /\ \E j \in 1..Len(m_layoutBlocks) :
          /\ j > call.result
          /\ PointIn(call.args[1], j)
          /\ m_layoutBlocks[j].readingOrder >= 0
    /\ PointIn(call.args[1], call.result)


\* the centre of the area is in the bounding box of block b, edges included
CentreOfAreaIn(entityArea, b) == CentreOfRectIn(entityArea, m_layoutBlocks[b].bbox)

\* the blocks a list of pointers points to
PointedBlocks(ptrs) == {ptrs[k] : k \in 1..Len(ptrs)} \ {nullptr}

\* C16 as stated: isEntityInAnyBlock returns true if and only if the centre of
\* entityArea lies within the bounding box of at least one block of the list.
C16_Original ==
    call.op = "isEntityInAnyBlock" =>
       (call.result <=>
           \E b \in PointedBlocks(call.args[2]) : CentreOfAreaIn(call.args[1], b))

\* C16: isEntityInAnyBlock returns true if and only if the given list is
\* empty or the centre of entityArea lies within the bounding box of at least
\* one block of the list.
C16_CentreInAnyBlock ==
    call.op = "isEntityInAnyBlock" =>
       (call.result <=>
           \/ call.args[2] = <<>>
           \/ \E b \in PointedBlocks(call.args[2]) :
                 CentreOfAreaIn(call.args[1], b))

\* isEntityInAnyBlock has returned true for an area whose centre is in the
\* second block of a list of two and not in the first
C16_Witness ==
    /\ call.op = "isEntityInAnyBlock"
    /\ Len(call.args[2]) = 2
    /\ call.args[2][1] # nullptr
    /\ ~CentreOfAreaIn(call.args[1], call.args[2][1])
    /\ CentreOfAreaIn(call.args[1], call.args[2][2])
    /\ call.result = TRUE


\* the point is past block b: below its bottom edge, or level with it and to
\* the right of its right edge
IsPast(p, b) ==
    LET box == m_layoutBlocks[b].bbox
    IN  \/ p.y > box.bottom
        \/ box.top <= p.y /\ p.y <= box.bottom /\ p.x > box.right

\* block b is, among the blocks of the set, the first in list order of those
\* with the greatest readingOrder; none is kept when the set is empty
FirstOfGreatestOrder(b, set) ==
    IF set = {} THEN b = nullptr
    ELSE /\ b \in set
         /\ \A j \in set :
               /\ m_layoutBlocks[j].readingOrder <= m_layoutBlocks[b].readingOrder
               /\ m_layoutBlocks[j].readingOrder = m_layoutBlocks[b].readingOrder
                  => b <= j

EntityEquivalent(a, b) == ~EntityLess(a, b) /\ ~EntityLess(b, a)

\* the comparison is a strict weak ordering of the fragments of the group
IsStrictWeakOrdering(words, group) ==
    LET G == Range(group)
    IN  /\ \A x \in G : ~EntityLess(words[x], words[x])
        /\ \A x, y, z \in G :
              /\ EntityLess(words[x], words[y]) /\ EntityLess(words[y], words[z])
                 => EntityLess(words[x], words[z])
              /\ EntityEquivalent(words[x], words[y])
                 /\ EntityEquivalent(words[y], words[z])
                 => EntityEquivalent(words[x], words[z])

\* the arrangements of a set of entities
RECURSIVE ArrangementsOf(_)
ArrangementsOf(set) ==
    IF set = {} THEN { <<>> }
    ELSE UNION { { <<x>> \o rest : rest \in ArrangementsOf(set \ {x}) } :
                    x \in set }

\* the arrangements of the entities of a group
Arrangements(group) == ArrangementsOf(Range(group))

\* what std::sort may leave in the group
SortOutcomes(words, group) ==
    IF IsStrictWeakOrdering(words, group)
    THEN { s \in Arrangements(group) :
              \A i, j \in 1..Len(s) :
                 i < j => ~EntityLess(words[s[j]], words[s[i]]) }
    ELSE Arrangements(group)

\* the concatenation loop over entitiesByBlock, keys ascending, for every
\* outcome of the sorts
RECURSIVE ConcatOutcomes(_, _, _, _)
ConcatOutcomes(words, matching, keyOf, keys) ==
    IF keys = {} THEN { <<>> }
    ELSE LET key   == CHOOSE k \in keys : \A o \in keys : k <= o
             group == SelectSeq(matching, LAMBDA i : keyOf[i] = key)
         IN  { sorted \o rest :
                  sorted \in SortOutcomes(words, group),
                  rest \in ConcatOutcomes(words, matching, keyOf, keys \ {key}) }

\* the sequences of entities extractTextInReadingOrder may emit
ExtractOutcomes(words, blocks, area, useIntersects) ==
    LET matching == MatchingEntities(words, area, useIntersects)
        keyOf    == [i \in Range(matching) |-> GroupKey(words[i].area, blocks)]
    IN  ConcatOutcomes(words, matching, keyOf, {keyOf[i] : i \in DOMAIN keyOf})

\* result += entity->text() over the entities emitted
RECURSIVE TextOf(_, _)
TextOf(words, entities) ==
    IF entities = <<>> THEN ""
    ELSE words[Head(entities)].text \o TextOf(words, Tail(entities))

\* fragments in the first generated block only, in the overlap of the first
\* two, in the second, between the blocks and in the third, out of reading
\* order in the list; "a1" and "a4" compare equivalent
AssemblerWords ==
    << TextEntity("c1",  Rect(100, 650, 200, 670)),
       TextEntity("gap", Rect(100, 540, 200, 560)),
       TextEntity("b1",  Rect(600, 100, 700, 120)),
       TextEntity("a4",  Rect(50, 102, 120, 118)),
       TextEntity("ab",  Rect(410, 20, 440, 40)),
       TextEntity("a1",  Rect(50, 100, 150, 120)) >>

\* a fragment above three fragments at the same left whose centres are 0.008
\* apart: each is on the line of the next and the first is not on the line of
\* the third
ChainWords ==
    << TextEntity("z", Rect(50, 40, 150, 60)),
       TextEntity("c", Rect(50, 106, 150, 126)),
       TextEntity("b", Rect(50, 98, 150, 118)),
       TextEntity("a", Rect(50, 90, 150, 110)) >>

\* three fragments 0.008 apart whose lefts decrease down the page: each is
\* less than the one above it by its left, and the first is less than the
\* third by its height
CycleWords ==
    << TextEntity("a", Rect(300, 90, 400, 110)),
       TextEntity("b", Rect(200, 98, 300, 118)),
       TextEntity("c", Rect(100, 106, 200, 126)) >>

AssemblerWordLists == { AssemblerWords, ChainWords, CycleWords }

\* the orders of the generated blocks and, since readingOrder is any int, the
\* order fragments of no block are filed under and the one after it
AssemblerOrders == (-1..MaxOrder) \cup { NoBlockOrder, NoBlockOrder + 1 }

AssemblerBlockLists ==
    { GeneratedBlocks(orders, MaxBlocks) :
        orders \in [1..MaxBlocks -> AssemblerOrders \cup {Absent}] }

AssemblerBlockListsFor(words) ==
    IF words \in { ChainWords, CycleWords }
    THEN { <<>>, << LayoutBlock("A", CandidateRects[1], 0) >> }
    ELSE AssemblerBlockLists

\* selection areas: the page, its left part and two stripes
AssemblerAreas ==
    { << Rect(0, 0, 1000, 1000) >>,
      << Rect(0, 0, 420, 1000) >>,
      << Rect(0, 0, 1000, 115), Rect(0, 500, 1000, 700) >> }

AssemblerInit ==
    /\ m_words \in AssemblerWordLists
    /\ m_layoutBlocks \in AssemblerBlockListsFor(m_words)
    /\ selection = NoSelection
    /\ extraction = NoExtraction
    /\ call = NoCall

\* BlockSelectionHelper::extractTextInReadingOrder(words, blocks, area,
\* useIntersects); locals: the entities in the order their text is appended
AssemblerExtract ==
    /\ call = NoCall
    /\ \E area \in AssemblerAreas : \E useIntersects \in BOOLEAN :
          \E entities \in ExtractOutcomes(m_words, m_layoutBlocks, area,
                                          useIntersects) :
             call' = [op |-> "extractTextInReadingOrder",
                      args |-> <<area, useIntersects>>,
                      result |-> TextOf(m_words, entities),
                      locals |-> [entities |-> entities]]
    /\ UNCHANGED << m_words, m_layoutBlocks, selection, extraction >>

AssemblerReturn ==
    /\ call # NoCall
    /\ call' = NoCall
    /\ UNCHANGED << m_words, m_layoutBlocks, selection, extraction >>

AssemblerNext == AssemblerExtract \/ AssemblerReturn

AssemblerSpec == AssemblerInit /\ [][AssemblerNext]_vars

\* the output of std::sort on short ranges as the insertion sort leaves it is
\* among the outcomes
InsertionSortIsAnOutcome ==
    call.op = "none" =>
       \A area \in AssemblerAreas : \A useIntersects \in BOOLEAN :
          ExtractedEntities(m_words, m_layoutBlocks, area, useIntersects)
             \in ExtractOutcomes(m_words, m_layoutBlocks, area, useIntersects)


\* extractTextInReadingOrder has returned
HasExtracted == call.op = "extractTextInReadingOrder"

\* the entities whose text was appended, and the place of one of them
Emitted == {call.locals.entities[k] : k \in 1..Len(call.locals.entities)}

PlaceOf(i) == CHOOSE k \in 1..Len(call.locals.entities) : call.locals.entities[k] = i

\* entity i is grouped under a block: it has an owning block, and that block
\* is in the reading flow (readingOrder >= 0)
GroupedUnderBlock(i) ==
    BlocksOf(i) # {} /\ m_layoutBlocks[OwningBlock(i)].readingOrder >= 0

\* C17: in the output of extractTextInReadingOrder the text of every matched
\* fragment whose centre lies in no block comes after the text of every
\* matched fragment that is grouped under a block, whatever the reading
\* orders of the blocks are.
C17_NoBlockTextLast ==
    HasExtracted =>
       \A i, j \in Emitted :
          GroupedUnderBlock(i) /\ BlocksOf(j) = {} => PlaceOf(i) < PlaceOf(j)


\* fragment i matches the area of the call: its rectangle meets a rectangle of
\* the area (useIntersects), or its centre lies in one
MatchesArea(i) ==
    LET a == m_words[i].area
    IN  \E k \in 1..Len(call.args[1]) :
           LET r == call.args[1][k]
           IN  IF call.args[2]
               THEN /\ a.left <= r.right /\ r.left <= a.right
                    /\ a.top <= r.bottom /\ r.top <= a.bottom
               ELSE CentreOfRectIn(a, r)

\* the result is the texts of the matched fragments and of no other, each
\* once, joined with nothing in between
ExactlyTheMatched ==
    /\ call.result = TextOf(m_words, call.locals.entities)
    /\ Emitted = {i \in 1..Len(m_words) : MatchesArea(i)}
    /\ Cardinality(Emitted) = Len(call.locals.entities)

\* the readingOrder of the owning block of a fragment that has one
OwnerOrder(i) == m_layoutBlocks[OwningBlock(i)].readingOrder

SameGroup(i, j) ==
    GroupKey(m_words[i].area, m_layoutBlocks) = GroupKey(m_words[j].area, m_layoutBlocks)

\* twice the vertical centre of fragment i
CentreY2(i) == m_words[i].area.top + m_words[i].area.bottom

\* the entities were emitted as the insertion sort std::sort runs on a short
\* range leaves them
InsertionSorted ==
    call.locals.entities
       = ExtractedEntities(m_words, m_layoutBlocks, call.args[1], call.args[2])

\* fragment i is sorted before fragment j by the comparison of the sort
Less(i, j) == EntityLess(m_words[i], m_words[j])

\* neither of the fragments i and j is sorted before the other
Equivalent(i, j) == ~Less(i, j) /\ ~Less(j, i)

\* no three fragments emitted are sorted in a cycle, so that the fragments
\* can be arranged as C19 asks
NoCycle ==
    \A i, j, k \in Emitted : ~(Less(i, j) /\ Less(j, k) /\ Less(k, i))

\* C19: within one group, of two fragments whose vertical centres differ by
\* more than the tolerance 0.01 the one with the smaller vertical centre is
\* emitted first, and of two fragments whose vertical centres differ by at
\* most 0.01 the one with the smaller left coordinate is emitted first.
\* Stated for the outcome of the insertion sort and for fragments that can be
\* arranged so.
C19_OrderWithinGroup ==
    HasExtracted /\ InsertionSorted /\ NoCycle =>
       \A i, j \in Emitted :
          SameGroup(i, j) =>
             IF Abs(CentreY2(i) - CentreY2(j)) > 2 * SameLineTolerance
             THEN CentreY2(i) < CentreY2(j) => PlaceOf(i) < PlaceOf(j)
             ELSE m_words[i].area.left < m_words[j].area.left
                  => PlaceOf(i) < PlaceOf(j)


\* findBlockForCursor has returned for a point that is in no block
CursorInNoBlock ==
    call.op = "findBlockForCursor" /\ call.locals.directBlock = nullptr

\* the blocks the point of the call is past, and those of them in the flow
PassedBlocks == {i \in 1..Len(m_layoutBlocks) : IsPast(call.args[1], i)}

PassedInFlow == {i \in PassedBlocks : m_layoutBlocks[i].readingOrder >= 0}

\* the first block of the list with the order after that of block b, or none
SuccessorOf(b) ==
    LET next == BlocksWithOrder(m_layoutBlocks[b].readingOrder + 1)
    IN  IF next = {} THEN nullptr
        ELSE CHOOSE i \in next : \A j \in next : i <= j

\* the successor of block b if there is one, and b itself otherwise
SuccessorOrSelf(b) == IF SuccessorOf(b) # nullptr THEN SuccessorOf(b) ELSE b

\* the first block of the list among those with the lowest non-negative
\* readingOrder, or none
FirstBlockInFlow ==
    LET inFlow == {i \in 1..Len(m_layoutBlocks) :
                      m_layoutBlocks[i].readingOrder >= 0}
    IN  IF inFlow = {} THEN nullptr
        ELSE CHOOSE i \in inFlow :
                \A j \in inFlow :
                   /\ m_layoutBlocks[i].readingOrder <= m_layoutBlocks[j].readingOrder
                   /\ m_layoutBlocks[i].readingOrder = m_layoutBlocks[j].readingOrder
                      => i <= j

OutOfFlow(b) == m_layoutBlocks[b].readingOrder = -1

\* C23 as stated: getNextBlock of an out-of-flow block is none, getNextBlock
\* never returns an out-of-flow block, and getBlocksInReadingOrderRange never
\* returns one, whatever its arguments.
C23_Original ==
    /\ call.op = "getNextBlock" /\ call.args[1] # nullptr =>
          /\ OutOfFlow(call.args[1]) => call.result = nullptr
          /\ call.result # nullptr => ~OutOfFlow(call.result)
    /\ call.op = "getBlocksInReadingOrderRange" =>
          \A k \in 1..Len(call.result) : ~OutOfFlow(call.result[k])

\* C23: getNextBlock of a block of readingOrder -1 or more never returns an
\* out-of-flow block, and for an out-of-flow block it returns the first block
\* of readingOrder 0, none if there is none; getBlocksInReadingOrderRange
\* returns the blocks whose readingOrder is in [minOrder, maxOrder], so no
\* out-of-flow block when minOrder >= 0 and every out-of-flow block when
\* minOrder <= -1 <= maxOrder.
C23_OutOfFlowExclusion ==
    /\ call.op = "getNextBlock" /\ call.args[1] # nullptr =>
          /\ OutOfFlow(call.args[1]) =>
                /\ call.result = SuccessorOf(call.args[1])
                /\ call.result # nullptr
                   => m_layoutBlocks[call.result].readingOrder = 0
          /\ call.result # nullptr => ~OutOfFlow(call.result)
    /\ call.op = "getBlocksInReadingOrderRange" =>
          LET inRange == {call.result[k] : k \in 1..Len(call.result)}
          IN  /\ inRange = {b \in 1..Len(m_layoutBlocks) :
                               /\ m_layoutBlocks[b].readingOrder >= call.args[1]
                               /\ m_layoutBlocks[b].readingOrder <= call.args[2]}
              /\ call.args[1] >= 0 => \A b \in inRange : ~OutOfFlow(b)
              /\ call.args[1] <= -1 /\ -1 <= call.args[2] =>
                    \A b \in 1..Len(m_layoutBlocks) : OutOfFlow(b) => b \in inRange

\* getBlocksInReadingOrderRange has returned the blocks of the flow of a list
\* that has an out-of-flow block as well
C23_Witness ==
    /\ call.op = "getBlocksInReadingOrderRange"
    /\ call.args[1] = 0
    /\ call.result # <<>>
    /\ \E b \in 1..Len(m_layoutBlocks) : OutOfFlow(b)
    /\ \A k \in 1..Len(call.result) : ~OutOfFlow(call.result[k])

C24_StrictWeakOrdering ==
    HasExtracted /\ InsertionSorted =>
       \A i, j, k \in Emitted :
          SameGroup(i, j) /\ SameGroup(j, k) =>
             /\ ~Less(i, i)
             /\ Less(i, j) => ~Less(j, i)
             /\ Less(i, j) /\ Less(j, k) => Less(i, k)
             /\ ~(Less(i, j) /\ Less(j, k) /\ Less(k, i))
             /\ Equivalent(i, j) /\ Equivalent(j, k) => Equivalent(i, k)

====
